---- MODULE Spec2Model ----
(***************************************************************************)
(* Batched extraction and merge engine of rgi_extractor.py                 *)
(* (extract_with_openai, chunked) as a state machine.                      *)
(*                                                                         *)
(* JSON values are tagged records; a Python dict is a TLA+ function from   *)
(* its keys to JSON values, a Python list a sequence, a string a sequence  *)
(* of tokens.                                                              *)
(***************************************************************************)
EXTENDS Integers, Sequences, FiniteSets, TLC

VARIABLES
    image_paths,   \* argument of extract_with_openai
    pc,            \* position in extract_with_openai
    content,       \* request payload being sent (tier and page labels)
    merged,        \* the accumulator
    total_pages,   \* the page counter
    calls,         \* every _call made so far, in order
    frags,         \* the parsed fragment (data) of every merged batch
    ret,           \* <<record>> once extract_with_openai returned, else <<>>
    error,         \* the exception that left extract_with_openai, or "none"
    seq,           \* chunked: the sequence being partitioned
    size,          \* chunked: the batch size
    gi,            \* chunked: the generator's loop variable i
    yielded,       \* chunked: the groups yielded so far
    PIL_AVAILABLE, \* whether Pillow could be imported
    tmp_files,     \* the temporary files made and still on disk, in order
    out,           \* main: <<data>> once the JSON was written, else <<>>
    in_texts,      \* infer_area_from_texts: its arguments
    out_area,      \* infer_area_from_texts: <<result>> once it returned
    session,       \* dashboard: st.session_state
    uploaded,      \* dashboard: <<file>> in the uploader, else <<>>
    prior,         \* dashboard: st.session_state when the extract button was pressed
    runs           \* dashboard: how often the extract button was pressed

vars == <<image_paths, pc, content, merged, total_pages, calls, frags,
          ret, error, seq, size, gi, yielded, PIL_AVAILABLE, tmp_files, out,
          in_texts, out_area, session, uploaded, prior, runs>>

\* what the extraction loop never writes
outside == <<PIL_AVAILABLE, out, in_texts, out_area, session, uploaded, prior, runs>>

-----------------------------------------------------------------------------
(* Bounds of the model *)

MaxPages == 3
MaxSeqLen == 4
MaxBatchSize == 3

(* Program constants *)

MAX_IMAGES_PER_CALL == 2
TARGET_WIDTH_PX == 1600
JPEG_QUALITY == 80
LIGHT_WIDTH_PX == 1200
LIGHT_JPEG_QUALITY == 70

-----------------------------------------------------------------------------
(* JSON values *)

Null == [t |-> "null"]
Str(s) == [t |-> "str", s |-> s]
Num(n) == [t |-> "num", n |-> n]
Arr(a) == [t |-> "arr", a |-> a]
Obj(o) == [t |-> "obj", o |-> o]

EmptyMap == <<>>
EmptyStr == Str(<<>>)
EmptyArr == Arr(<<>>)
EmptyObj == Obj(EmptyMap)

\* Python truth value of a JSON value
Truthy(v) ==
    CASE v.t = "null" -> FALSE
      [] v.t = "str" -> v.s # <<>>
      [] v.t = "num" -> v.n # 0
      [] v.t = "arr" -> v.a # <<>>
      [] v.t = "obj" -> DOMAIN v.o # {}

\* a or b
Or(a, b) == IF Truthy(a) THEN a ELSE b

\* d.get(k)
Get(d, k) == IF k \in DOMAIN d THEN d[k] ELSE Null

\* d[k] = v
Put(d, k, v) == [x \in DOMAIN d \cup {k} |-> IF x = k THEN v ELSE d[x]]

\* d.pop(k, None)
Pop(d, k) == [x \in DOMAIN d \ {k} |-> d[x]]

\* v not in (None, "", [], {})
NotInEmpties(v) == v \notin {Null, EmptyStr, EmptyArr, EmptyObj}

Min(a, b) == IF a < b THEN a ELSE b

-----------------------------------------------------------------------------
(* chunked(seq, size): for i in range(0, len(seq), size): yield seq[i:i+size] *)

Slice_one_more(s, i, n) == SubSeq(s, i + 1, Min(i + n + 1, Len(s)))

\* seq[i:i+size]
Slice(s, i, n) == SubSeq(s, i + 1, Min(i + n, Len(s)))

Enumerate_from_zero(paths) == [i \in 1..Len(paths) |-> <<i - 1, paths[i]>>]

\* list(enumerate(image_paths, start=1))
Enumerate(paths) == [i \in 1..Len(paths) |-> <<i, paths[i]>>]

-----------------------------------------------------------------------------
(* Measurement inference *)

\* The number NUM_M_RGX captures (group 1) when it matches inside a token of
\* text, as its characters; <<>> when the token holds no match.  In
\* "12.5 m2" the first alternative fails and the second captures "12.5".
NumMatch(tok) ==
    CASE tok = "10,0 m" -> <<"1", "0", ",", "0">>
      [] tok = "20,5 m" -> <<"2", "0", ",", "5">>
      [] tok = "0,0 m" -> <<"0", ",", "0">>
      [] tok = "12.5 m2" -> <<"1", "2", ".", "5">>
      [] tok = "2.000,0 m" -> <<"2", ".", "0", "0", "0", ",", "0">>
      [] tok = "1.500,0 m" -> <<"1", ".", "5", "0", "0", ",", "0">>
      [] tok = "1,25 m" -> <<"1", ",", "2", "5">>
      [] tok = "2,35 m" -> <<"2", ",", "3", "5">>
      [] tok = "1,00001 m" -> <<"1", ",", "0", "0", "0", "0", "1">>
      [] tok = "1,00002 m" -> <<"1", ",", "0", "0", "0", "0", "2">>
      [] tok = "0,00001 m" -> <<"0", ",", "0", "0", "0", "0", "1">>
      [] tok = "0,05 m" -> <<"0", ",", "0", "5">>
      [] tok = "0,06 m" -> <<"0", ",", "0", "6">>
      [] OTHER -> <<>>

DigitVal(c) ==
    CASE c = "0" -> 0 [] c = "1" -> 1 [] c = "2" -> 2 [] c = "3" -> 3
      [] c = "4" -> 4 [] c = "5" -> 5 [] c = "6" -> 6 [] c = "7" -> 7
      [] c = "8" -> 8 [] c = "9" -> 9

\* s.replace(c, "")
RECURSIVE Without(_, _)
Without(s, c) ==
    IF s = <<>> THEN <<>>
    ELSE (IF Head(s) = c THEN <<>> ELSE <<Head(s)>>) \o Without(Tail(s), c)

RECURSIVE DigitsVal(_)
DigitsVal(s) ==
    IF s = <<>> THEN 0 ELSE 10 * DigitsVal(SubSeq(s, 1, Len(s) - 1)) + DigitVal(s[Len(s)])

\* the digits after the decimal point, in units of 0.00001: the numbers of
\* NumMatch carry at most five of them
RECURSIVE FracVal(_)
FracVal(fp) == IF Len(fp) >= 5 THEN DigitsVal(SubSeq(fp, 1, 5)) ELSE FracVal(fp \o <<"0">>)

\* _to_float_pt: drop the thousands dots, read the comma as the decimal
\* point; the float in units of 0.00001 m, as <<v>>, or <<>> for None
_to_float_pt(num_str) ==
    LET s == Without(num_str, ".")
        commas == {i \in DOMAIN s : s[i] = ","}
    IN  IF commas = {} THEN <<100000 * DigitsVal(s)>>
        ELSE IF Cardinality(commas) > 1 THEN <<>>
        ELSE LET c == CHOOSE i \in commas : TRUE
                 ip == SubSeq(s, 1, c - 1)
                 fp == SubSeq(s, c + 1, Len(s))
             IN  IF ip = <<>> /\ fp = <<>> THEN <<>>
                 ELSE <<100000 * DigitsVal(ip) + FracVal(fp)>>

\* extract_measures_meters(text), text a sequence of tokens
RECURSIVE extract_measures_meters(_)
extract_measures_meters(text) ==
    IF text = <<>> THEN <<>>
    ELSE LET m == NumMatch(Head(text))
         IN  (IF m = <<>> THEN <<>> ELSE _to_float_pt(m))
             \o extract_measures_meters(Tail(text))

RECURSIVE FlatMeasures(_)
FlatMeasures(texts) ==
    IF texts = <<>> THEN <<>>
    ELSE extract_measures_meters(Head(texts)) \o FlatMeasures(Tail(texts))

SelectPositive(ms) == SelectSeq(ms, LAMBDA v : v > 0)

Round4_truncates(v) == (v \div 10) * 10

\* round(v, 4): to the nearest 0.0001, still in units of 0.00001 (no number
\* of NumMatch lies half-way between two)
Round4(v) == ((v + 5) \div 10) * 10

\* [round(v, 4) for v in measures if v > 0]
RoundedPositive(ms) == [i \in DOMAIN SelectPositive(ms) |-> Round4(SelectPositive(ms)[i])]

\* freq = Counter(measures)
Counter(measures, x) == Cardinality({i \in DOMAIN measures : measures[i] = x})

\* the order of sorted(freq.keys(), key=lambda x: (-freq[x], -x))
SortsBefore(measures, x, y) ==
    \/ Counter(measures, x) > Counter(measures, y)
    \/ Counter(measures, x) = Counter(measures, y) /\ x > y

FirstOf(measures, keys) ==
    CHOOSE x \in keys : \A y \in keys \ {x} : SortsBefore(measures, x, y)

\* a * b for a, b in units of 0.00001, by halves of four digits so that no
\* intermediate exceeds 32 bits: the product is
\* (TimesHundredths + TimesRest / 10^8) hundredths of a square metre
Hi(a) == a \div 10000
Lo(a) == a % 10000
Cross(a, b) == Hi(a) * Lo(b) + Lo(a) * Hi(b)
LowPart(a, b) == (Cross(a, b) % 10000) * 10000 + Lo(a) * Lo(b)
TimesHundredths(a, b) == Hi(a) * Hi(b) + (Cross(a, b) \div 10000) + (LowPart(a, b) \div 100000000)
TimesRest(a, b) == LowPart(a, b) % 100000000

\* 0 < area < 1e6
InRange(a, b) ==
    /\ TimesHundredths(a, b) > 0 \/ TimesRest(a, b) > 0
    /\ TimesHundredths(a, b) < 100000000

Round2_truncates(a, b) == TimesHundredths(a, b)

\* round(area, 2), in hundredths of a square metre (the texts of the model
\* give no product half-way between two hundredths)
Round2(a, b) == TimesHundredths(a, b) + (IF TimesRest(a, b) >= 50000000 THEN 1 ELSE 0)

\* area = a * b; if 0 < area < 1e6: return round(area, 2); Null for None
AcceptArea(a, b) == IF InRange(a, b) THEN Num(Round2(a, b)) ELSE Null

\* a, b = distinct[0], distinct[1]
TopTwoArea(measures, keys, a) == AcceptArea(a, FirstOf(measures, keys \ {a}))

InferFromMeasures(measures, keys) ==
    IF Len(measures) < 2 THEN Null
    ELSE IF Cardinality(keys) >= 2
         THEN TopTwoArea(measures, keys, FirstOf(measures, keys))
         ELSE Null

Range(f) == {f[i] : i \in DOMAIN f}

InferFrom(measures) == InferFromMeasures(measures, Range(measures))

\* infer_area_from_texts(*texts)
infer_area_from_texts(texts) == InferFrom(RoundedPositive(FlatMeasures(texts)))

\* f"{x:.2f} m² (inferido)" for x in hundredths
FormatInferred(n) ==
    LET c == n % 100
    IN  Str(<<ToString(n \div 100), ".", ToString(c \div 10), ToString(c % 10),
              " m2 (inferido)">>)

-----------------------------------------------------------------------------
(* The merge of one batch fragment `data` into the accumulator `m` *)

MergeMetadata_unfiltered(m, data) ==
    LET md == Or(Get(data, "document_metadata"), EmptyObj).o
        old == Get(m, "document_metadata").o
    IN  Put(m, "document_metadata",
            Obj([k \in DOMAIN old \cup DOMAIN md |->
                    IF k \in DOMAIN md THEN md[k] ELSE old[k]]))

\* merge metadata
MergeMetadata(m, data) ==
    LET md == Or(Get(data, "document_metadata"), EmptyObj).o
        old == Get(m, "document_metadata").o
        set == {k \in DOMAIN md : NotInEmpties(md[k])}
    IN  Put(m, "document_metadata",
            Obj([k \in DOMAIN old \cup set |-> IF k \in set THEN md[k] ELSE old[k]]))

_extend_prepends(m, data, key) ==
    Put(m, key, Arr(Or(Get(data, key), EmptyArr).a \o Or(Get(m, key), EmptyArr).a))

\* _extend(key)
_extend(m, data, key) ==
    Put(m, key, Arr(Or(Get(m, key), EmptyArr).a \o Or(Get(data, key), EmptyArr).a))

ARRAY_KEYS == <<"proprietarios", "registros", "valores_mencionados", "referencias">>

RECURSIVE ExtendAll(_, _, _)
ExtendAll(m, data, keys) ==
    IF keys = <<>> THEN m
    ELSE ExtendAll(_extend(m, data, Head(keys)), data, Tail(keys))

\* selos/custas: the two lists
ConcatSelos(dst, src, k) ==
    Put(dst, k, Arr(Or(Get(dst, k), EmptyArr).a \o Or(Get(src, k), EmptyArr).a))

\* selos/custas: itbi and custas
FillSelo(dst, src, k) ==
    IF Truthy(Get(src, k)) /\ ~Truthy(Get(dst, k)) THEN Put(dst, k, src[k]) ELSE dst

MergeSelos(m, data) ==
    LET sc_dst == Or(Get(m, "selos_e_custas"),
                     Obj([guias |-> EmptyArr, selos |-> EmptyArr])).o
        sc_src == Or(Get(data, "selos_e_custas"), EmptyObj).o
        d1 == ConcatSelos(sc_dst, sc_src, "guias")
        d2 == ConcatSelos(d1, sc_src, "selos")
        d3 == FillSelo(d2, sc_src, "itbi")
        d4 == FillSelo(d3, sc_src, "custas")
    IN  Put(m, "selos_e_custas", Obj(d4))

CopiesImovelKey_overwrites(im_dst, im_src, k) ==
    k \in DOMAIN im_src /\ Truthy(im_src[k])

\* imovel: for k, v in im_src.items(): if v and (not im_dst.get(k)): im_dst[k] = v
CopiesImovelKey(im_dst, im_src, k) ==
    k \in DOMAIN im_src /\ Truthy(im_src[k]) /\ ~Truthy(Get(im_dst, k))

\* a nested object filled leaf by leaf instead of taken whole
DeepFill(dst_v, src_v) ==
    IF dst_v.t = "obj" /\ src_v.t = "obj"
    THEN Obj([l \in DOMAIN dst_v.o \cup DOMAIN src_v.o |->
                IF l \in DOMAIN dst_v.o /\ Truthy(dst_v.o[l]) THEN dst_v.o[l]
                ELSE IF l \in DOMAIN src_v.o THEN src_v.o[l] ELSE dst_v.o[l]])
    ELSE dst_v

MergeImovel_deep(m, data) ==
    LET im_dst == Or(Get(m, "imovel"), EmptyObj).o
        im_src == Or(Get(data, "imovel"), EmptyObj).o
    IN  Put(m, "imovel",
            Obj([k \in DOMAIN im_dst \cup {x \in DOMAIN im_src : Truthy(im_src[x])} |->
                    IF k \notin DOMAIN im_dst \/ ~Truthy(im_dst[k]) THEN
                        (IF k \in DOMAIN im_src /\ Truthy(im_src[k])
                         THEN im_src[k] ELSE im_dst[k])
                    ELSE IF k \in DOMAIN im_src THEN DeepFill(im_dst[k], im_src[k])
                    ELSE im_dst[k]]))

MergeImovel(m, data) ==
    LET im_dst == Or(Get(m, "imovel"), EmptyObj).o
        im_src == Or(Get(data, "imovel"), EmptyObj).o
        set == {k \in DOMAIN im_src : CopiesImovelKey(im_dst, im_src, k)}
    IN  Put(m, "imovel",
            Obj([k \in DOMAIN im_dst \cup set |->
                    IF k \in set THEN im_src[k] ELSE im_dst[k]]))

MergeBatch_merges_confidence(m, data) ==
    Put(MergeImovel(MergeSelos(ExtendAll(MergeMetadata(m, data), data, ARRAY_KEYS), data), data),
        "confidence",
        Obj(Or(Get(data, "confidence"), EmptyObj).o @@ Or(Get(m, "confidence"), EmptyObj).o))

\* the loop body after json.loads, lines 478-508
MergeBatch(m, data) ==
    MergeImovel(MergeSelos(ExtendAll(MergeMetadata(m, data), data, ARRAY_KEYS), data), data)

-----------------------------------------------------------------------------
(* After the loop *)

SetPages_keeps_reported(m, n) ==
    IF Get(m["document_metadata"].o, "paginas_processadas") \in {Null, Num(0)}
    THEN Put(m, "document_metadata",
             Obj(Put(m["document_metadata"].o, "paginas_processadas", Num(n))))
    ELSE m

\* merged["document_metadata"]["paginas_processadas"] = total_pages
SetPages(m, n) ==
    Put(m, "document_metadata",
        Obj(Put(m["document_metadata"].o, "paginas_processadas", Num(n))))

FixReg_keeps_legacy(r) ==
    IF "pessoas_envovidas" \in DOMAIN r /\ "pessoas_envolvidas" \notin DOMAIN r
    THEN Put(r, "pessoas_envolvidas", Or(Get(r, "pessoas_envovidas"), EmptyArr))
    ELSE r

FixReg_overwrites(r) ==
    IF "pessoas_envovidas" \in DOMAIN r
    THEN Pop(Put(r, "pessoas_envolvidas", Or(Get(r, "pessoas_envovidas"), EmptyArr)),
             "pessoas_envovidas")
    ELSE r

\* compat: one registro r (a dict)
FixReg(r) ==
    IF "pessoas_envovidas" \in DOMAIN r /\ "pessoas_envolvidas" \notin DOMAIN r
    THEN Pop(Put(r, "pessoas_envolvidas", Or(Get(r, "pessoas_envovidas"), EmptyArr)),
             "pessoas_envovidas")
    ELSE r

FixRegs(m) ==
    LET regs == Or(Get(m, "registros"), EmptyArr).a
    IN  Put(m, "registros", Arr([i \in DOMAIN regs |-> Obj(FixReg(regs[i].o))]))

TextOf(imv, k) == Or(Get(imv, k), EmptyStr).s \o <<" ">>

\* conf["derived"].setdefault("areas", {})[num_key] = note
NoteDerived(conf, num_key, note) ==
    Put(conf, "derived",
        Obj(Put(conf["derived"].o, "areas",
                Obj(Put(Or(Get(conf["derived"].o, "areas"), EmptyObj).o, num_key, note)))))

FillAreaStr_overwrites(areas, str_key, inferred) ==
    Put(areas, str_key, FormatInferred(inferred.n))

\* if not areas.get(str_key): areas[str_key] = f"{inferred:.2f} m² (inferido)"
FillAreaStr(areas, str_key, inferred) ==
    IF ~Truthy(Get(areas, str_key))
    THEN Put(areas, str_key, FormatInferred(inferred.n))
    ELSE areas

Derives_ignores_supplied(areas, num_key, inferred) == Truthy(inferred)

\* whether one derivation writes: lines 533-535 (total), 542-544 (terreno)
Derives(areas, num_key, inferred) ==
    ~Truthy(Get(areas, num_key)) /\ Truthy(inferred)

\* one derivation on the pair <<areas, conf>>: lines 533-539, 542-548
DeriveArea(ac, inferred, num_key, str_key, note) ==
    IF Derives(ac[1], num_key, inferred)
    THEN <<FillAreaStr(Put(ac[1], num_key, inferred), str_key, inferred),
           NoteDerived(ac[2], num_key, note)>>
    ELSE ac

NOTE_TOTAL == Str(<<"inferido a partir de medidas lineares no texto">>)
NOTE_TERRENO == Str(<<"inferido a partir de confrontacoes/dimensoes">>)

\* conf = merged.get("confidence") or {}; conf.setdefault("derived", {})
ConfOf(m) ==
    IF "derived" \in DOMAIN Or(Get(m, "confidence"), EmptyObj).o
    THEN Or(Get(m, "confidence"), EmptyObj).o
    ELSE Put(Or(Get(m, "confidence"), EmptyObj).o, "derived", EmptyObj)

DeriveBoth_terreno_reads_descricao(imv, conf) ==
    DeriveArea(
        DeriveArea(<<Or(Get(imv, "areas"), EmptyObj).o, conf>>,
                   infer_area_from_texts(<<TextOf(imv, "descricao"),
                                           TextOf(imv, "confrontacoes"),
                                           TextOf(imv, "dimensoes")>>),
                   "area_total_m2", "area_total_str", NOTE_TOTAL),
        infer_area_from_texts(<<TextOf(imv, "descricao"),
                                TextOf(imv, "confrontacoes"),
                                TextOf(imv, "dimensoes")>>),
        "area_terreno_m2", "area_terreno_str", NOTE_TERRENO)

\* both derivations, in order, on the imovel dict imv
DeriveBoth(imv, conf) ==
    DeriveArea(
        DeriveArea(<<Or(Get(imv, "areas"), EmptyObj).o, conf>>,
                   infer_area_from_texts(<<TextOf(imv, "descricao"),
                                           TextOf(imv, "confrontacoes"),
                                           TextOf(imv, "dimensoes")>>),
                   "area_total_m2", "area_total_str", NOTE_TOTAL),
        infer_area_from_texts(<<TextOf(imv, "confrontacoes"), TextOf(imv, "dimensoes")>>),
        "area_terreno_m2", "area_terreno_str", NOTE_TERRENO)

\* imv["areas"] = areas; merged["imovel"] = imv; merged["confidence"] = conf
WriteBack(m, imv, ac) ==
    Put(Put(m, "imovel", Obj(Put(imv, "areas", Obj(ac[1])))), "confidence", Obj(ac[2]))

DeriveInto(m, imv) == WriteBack(m, imv, DeriveBoth(imv, ConfOf(m)))

\* the post-processing of lines 523-553
DeriveAreas(m) == DeriveInto(m, Or(Get(m, "imovel"), EmptyObj).o)

\* lines 512-553: what extract_with_openai returns
Finalize(m, n) == DeriveAreas(FixRegs(SetPages(m, n)))

-----------------------------------------------------------------------------
(* What the model can answer: message.content of a response *)

NoContent == [k |-> "none"]               \* None or ""
Garbage == [k |-> "garbage"]              \* text that is not JSON
JsonText(v) == [k |-> "json", v |-> v]    \* the JSON text of value v

\* what a content is: "none", "garbage", "object" or "non_object"
Kind(c) ==
    IF c.k = "json" THEN (IF c.v.t = "obj" THEN "object" ELSE "non_object") ELSE c.k

\* json.loads(content or "{}"): [ok |-> TRUE, v |-> value], or ok = FALSE
\* when json.loads raises
JsonLoads(c) ==
    LET text == IF c.k = "none" THEN JsonText(EmptyObj) ELSE c
    IN  IF text.k = "json" THEN [ok |-> TRUE, v |-> text.v] ELSE [ok |-> FALSE]

S(x) == Str(<<x>>)
One(k, v) == k :> v

T_UNIT == Str(<<"apto", "10,0 m", "por", "20,5 m">>)
T_PLAIN == Str(<<"sem medidas">>)
T_LOT == Str(<<"frente", "10,0 m", "fundos", "10,0 m", "lado", "12.5 m2">>)
T_HUGE == Str(<<"2.000,0 m", "1.500,0 m", "0,0 m">>)
T_FINE == Str(<<"1,25 m", "2,35 m">>)
T_TINY == Str(<<"0,05 m", "0,06 m">>)

MdValues == {Null, EmptyStr, EmptyArr, EmptyObj, S("M1"), S("M2")}

MdMaps ==
    {EmptyMap, One("paginas_processadas", Num(7))}
    \cup {One("matricula", v) : v \in MdValues}
    \cup {One("matricula", v) @@ One("paginas_processadas", Num(7)) : v \in MdValues}
    \cup {One("matricula", S("M1")) @@ One("cidade", S("Rio")),
          One("cidade", EmptyStr)}

MdFrags == {One("document_metadata", Null)}
           \cup {One("document_metadata", Obj(m)) : m \in MdMaps}

ArrValues == {Arr(<<S("x")>>), Arr(<<S("y"), S("x")>>)}

R_PLAIN == Obj(One("numero", S("R-1")))
R_LEGACY == Obj(One("numero", S("R-2")) @@ One("pessoas_envovidas", Arr(<<S("ana")>>)))
R_LEGACY_NULL == Obj(One("pessoas_envovidas", Null))
R_LEGACY_EMPTY == Obj(One("pessoas_envovidas", EmptyArr))
R_CORRECT == Obj(One("numero", S("AV-3")) @@ One("pessoas_envolvidas", Arr(<<S("bia")>>)))
R_BOTH == Obj(One("pessoas_envovidas", Arr(<<S("ana")>>))
              @@ One("pessoas_envolvidas", Arr(<<S("bia")>>)))
R_BOTH_NULL == Obj(One("pessoas_envovidas", Arr(<<S("ana")>>))
                   @@ One("pessoas_envolvidas", Null))

RegValues ==
    {Arr(<<r>>) : r \in {R_PLAIN, R_LEGACY, R_LEGACY_NULL, R_LEGACY_EMPTY,
                         R_CORRECT, R_BOTH, R_BOTH_NULL}}
    \cup {Arr(<<R_LEGACY, R_LEGACY_NULL>>), Arr(<<R_CORRECT, R_LEGACY>>)}

\* owner records; a cpf is a string of characters
O_PLAIN == Obj(One("nome", S("ana")))
O_CPF == Obj(One("nome", S("bia")) @@ One("cpf", Str(<<"1", "2", ".", "3", "-", "4">>)))
O_DIGITS == Obj(One("cpf", Str(<<"1", "2", "3">>)))
O_NULL == Obj(One("nome", S("caio")) @@ One("cpf", Null))
O_EMPTY == Obj(One("cpf", EmptyStr))
O_NUM == Obj(One("cpf", Num(7)))

OwnerValues ==
    {Arr(<<O_CPF>>), Arr(<<O_PLAIN, O_DIGITS>>), Arr(<<O_NULL, O_EMPTY>>), Arr(<<O_NUM>>)}

ArrFrags ==
    {One(k, v) : k \in {"valores_mencionados", "referencias"}, v \in ArrValues}
    \cup {One("proprietarios", v) : v \in OwnerValues}
    \cup {One("registros", v) : v \in RegValues}
    \cup {One("selos_e_custas", Obj(One(k, v))) : k \in {"guias", "selos"}, v \in ArrValues}
    \cup {One("proprietarios", Null), One("referencias", EmptyArr),
          One("selos_e_custas", Obj(One("guias", Null))),
          One("selos_e_custas", Null)}

SelosFrags ==
    {One("selos_e_custas", Obj(One("itbi", v))) : v \in {Null, EmptyStr, S("I1"), S("I2")}}
    \cup {One("selos_e_custas", Obj(One("custas", v))) : v \in {S("C1"), S("C2")}}
    \cup {One("selos_e_custas",
              Obj(One("itbi", S("I2")) @@ One("custas", S("C1")) @@ One("selos", Arr(<<S("x")>>))))}

AreasValues ==
    {EmptyObj,
     Obj(One("area_total_m2", Num(5000))),
     Obj(One("area_total_str", S("50 m2")) @@ One("area_terreno_m2", Num(30000))),
     Obj(One("area_total_m2", Num(0)) @@ One("area_privativa_m2", Num(4000))),
     Obj(One("area_terreno_str", S("300 m2")) @@ One("area_total_str", EmptyStr))}

ImovelFrags ==
    {One("imovel", Null), One("imovel", EmptyObj)}
    \cup {One("imovel", Obj(One("descricao", v))) : v \in {EmptyStr, T_UNIT, T_PLAIN}}
    \cup {One("imovel", Obj(One("confrontacoes", v))) : v \in {T_LOT, T_UNIT}}
    \cup {One("imovel", Obj(One("dimensoes", v))) : v \in {T_HUGE, T_FINE, T_TINY}}
    \cup {One("imovel", Obj(One("areas", v))) : v \in AreasValues}
    \cup {One("imovel", Obj(One("descricao", T_UNIT) @@ One("confrontacoes", T_LOT)
                            @@ One("areas", Obj(One("area_total_str", S("50 m2"))))))}

FULL ==
    [document_metadata |-> Obj(One("matricula", S("M2"))),
     imovel |-> Obj(One("descricao", T_PLAIN)),
     proprietarios |-> Arr(<<O_PLAIN>>),
     registros |-> Arr(<<R_LEGACY>>),
     valores_mencionados |-> Arr(<<S("y")>>),
     selos_e_custas |-> Obj(One("guias", Arr(<<S("y")>>)) @@ One("itbi", S("I1"))),
     referencias |-> Arr(<<S("y")>>),
     confidence |-> Obj(One("model", S("high")))]

\* a fragment whose confidence reports a derived sub-map of its own
CONF_DERIVED ==
    One("confidence",
        Obj(One("derived", Obj(One("areas", Obj(One("area_total_m2", S("modelo"))))))))

\* the JSON objects a response may hold
Fragments ==
    {EmptyMap, FULL, One("confidence", Obj(One("model", S("low")))), CONF_DERIVED}
    \cup MdFrags \cup ArrFrags \cup SelosFrags \cup ImovelFrags

\* every message.content the model may answer with
Contents ==
    {NoContent, Garbage, JsonText(EmptyArr), JsonText(Null)}
    \cup {JsonText(Obj(f)) : f \in Fragments}

-----------------------------------------------------------------------------
(* extract_with_openai *)

PathName(i) == "page_" \o ToString(i) \o ".png"

\* one page of a payload: the label "Página {page_num}:" and the image
\* compress_to_jpeg(path, width, quality) made
PageItem(p, width, quality) ==
    [page_num |-> p[1], path |-> p[2], width |-> width, quality |-> quality]

\* content / light_content for a batch
Payload(batch, width, quality) ==
    [i \in DOMAIN batch |-> PageItem(batch[i], width, quality)]

NormalPayload(batch) == Payload(batch, TARGET_WIDTH_PX, JPEG_QUALITY)
LightPayload_normal_tier(batch) == Payload(batch, TARGET_WIDTH_PX, JPEG_QUALITY)
LightPayload(batch) == Payload(batch, LIGHT_WIDTH_PX, LIGHT_JPEG_QUALITY)

\* compress_to_jpeg leaves one NamedTemporaryFile(delete=False) per image it
\* makes; without Pillow it returns the source path and makes none
TempFiles(payload) ==
    IF PIL_AVAILABLE
    THEN [i \in DOMAIN payload |->
            [by |-> "compress_to_jpeg", src |-> payload[i].path,
             width |-> payload[i].width, quality |-> payload[i].quality]]
    ELSE <<>>

\* the batch the loop is working on
Batch == yielded[Len(yielded)]

MERGED0 ==
    [document_metadata |-> Obj(One("paginas_processadas", Num(0))),
     imovel |-> EmptyObj,
     proprietarios |-> EmptyArr,
     registros |-> EmptyArr,
     valores_mencionados |-> EmptyArr,
     selos_e_custas |-> Obj([guias |-> EmptyArr, selos |-> EmptyArr]),
     referencias |-> EmptyArr,
     confidence |-> EmptyObj]

Init ==
    /\ image_paths \in {[i \in 1..n |-> PathName(i)] : n \in 0..MaxPages}
    /\ pc = "loop"
    /\ content = <<>>
    /\ merged = MERGED0
    /\ total_pages = 0
    /\ calls = <<>>
    /\ frags = <<>>
    /\ ret = <<>>
    /\ error = "none"
    /\ seq = Enumerate(image_paths)
    /\ size = MAX_IMAGES_PER_CALL
    /\ gi = 0
    /\ yielded = <<>>
    /\ PIL_AVAILABLE \in BOOLEAN
    /\ tmp_files = <<>>
    /\ out = <<>>
    /\ in_texts = <<>>
    /\ out_area = <<>>
    /\ session = EmptyMap
    /\ uploaded = <<>>
    /\ prior = EmptyMap
    /\ runs = 0

\* chunked yields the next group: the body of its for loop
Yield ==
    /\ gi < Len(seq)
    /\ yielded' = Append(yielded, Slice(seq, gi, size))
    /\ gi' = gi + size
    /\ UNCHANGED <<seq, size>>

\* the for loop takes the next batch and builds the normal payload
BuildRequest ==
    /\ pc = "loop"
    /\ Yield
    /\ content' = NormalPayload(Batch')
    /\ tmp_files' = tmp_files \o TempFiles(content')
    /\ pc' = "call"
    /\ UNCHANGED <<image_paths, merged, total_pages, calls, frags, ret, error>>
    /\ UNCHANGED outside

Call(outcome) ==
    [batch |-> Len(yielded), payload |-> content, outcome |-> outcome]

\* lines 476-510 on a response with message.content c
Handle(c) ==
    LET r == JsonLoads(c)
    IN  IF r.ok /\ r.v.t = "obj"
        THEN /\ merged' = MergeBatch(merged, r.v.o)
             /\ frags' = Append(frags, r.v.o)
             /\ total_pages' = total_pages + Len(Batch)
             /\ pc' = "loop"
             /\ error' = error
        ELSE /\ pc' = "failed"
             /\ error' = IF r.ok THEN "AttributeError" ELSE "JSONDecodeError"
             /\ UNCHANGED <<merged, frags, total_pages>>

\* resp = _call(content) returns
CallReturns(c) ==
    /\ pc = "call"
    /\ calls' = Append(calls, Call(Kind(c)))
    /\ Handle(c)
    /\ UNCHANGED <<image_paths, content, ret, seq, size, gi, yielded, tmp_files>>
    /\ UNCHANGED outside

\* resp = _call(content) raises: build the light payload
CallRaises ==
    /\ pc = "call"
    /\ calls' = Append(calls, Call("raise"))
    /\ content' = LightPayload(Batch)
    /\ tmp_files' = tmp_files \o TempFiles(content')
    /\ pc' = "retry"
    /\ UNCHANGED <<image_paths, merged, total_pages, frags, ret, error,
                   seq, size, gi, yielded>>
    /\ UNCHANGED outside

\* resp = _call(light_content) returns
RetryReturns(c) ==
    /\ pc = "retry"
    /\ calls' = Append(calls, Call(Kind(c)))
    /\ Handle(c)
    /\ UNCHANGED <<image_paths, content, ret, seq, size, gi, yielded, tmp_files>>
    /\ UNCHANGED outside

RetryRaises_skips_batch ==
    /\ pc = "retry"
    /\ calls' = Append(calls, Call("raise"))
    /\ pc' = "loop"
    /\ UNCHANGED <<image_paths, content, merged, total_pages, frags, ret, error,
                   seq, size, gi, yielded, tmp_files>>
    /\ UNCHANGED outside

\* resp = _call(light_content) raises: the exception leaves the function
RetryRaises ==
    /\ pc = "retry"
    /\ calls' = Append(calls, Call("raise"))
    /\ pc' = "failed"
    /\ error' = "retry_call"
    /\ UNCHANGED <<image_paths, content, merged, total_pages, frags, ret,
                   seq, size, gi, yielded, tmp_files>>
    /\ UNCHANGED outside

\* the loop is over: lines 512-555
Finish ==
    /\ pc = "loop"
    /\ gi >= Len(seq)
    /\ merged' = Finalize(merged, total_pages)
    /\ ret' = <<merged'>>
    /\ pc' = "done"
    /\ UNCHANGED <<image_paths, content, total_pages, calls, frags, error,
                   seq, size, gi, yielded, tmp_files>>
    /\ UNCHANGED outside

\* re.sub(r"\D", "", s)
StripNonDigits(s) ==
    SelectSeq(s, LAMBDA c : c \in {"0", "1", "2", "3", "4", "5", "6", "7", "8", "9"})

\* if p.get("cpf"): p["cpf"] = re.sub(r"\D", "", p["cpf"])
NormalizeOwner(p) ==
    IF Truthy(Get(p, "cpf")) THEN Put(p, "cpf", Str(StripNonDigits(p["cpf"].s))) ELSE p

\* the loop over data.get("proprietarios", []) or []
NormalizeCpfs(data) ==
    Put(data, "proprietarios",
        Arr([i \in DOMAIN Or(Get(data, "proprietarios"), EmptyArr).a |->
                Obj(NormalizeOwner(data["proprietarios"].a[i].o))]))

\* re.sub raises TypeError on a cpf that is not a string
CpfRaises(data) ==
    \E i \in DOMAIN Or(Get(data, "proprietarios"), EmptyArr).a :
        /\ Truthy(Get(data["proprietarios"].a[i].o, "cpf"))
        /\ data["proprietarios"].a[i].o["cpf"].t # "str"

\* main, after extract_from_images returned: normalise the cpfs and write
\* the JSON
MainWrites ==
    /\ pc = "done"
    /\ IF CpfRaises(ret[1])
       THEN /\ pc' = "failed"
            /\ error' = "TypeError"
            /\ out' = out
       ELSE /\ pc' = "written"
            /\ error' = error
            /\ out' = <<NormalizeCpfs(ret[1])>>
    /\ UNCHANGED <<image_paths, content, merged, total_pages, calls, frags, ret,
                   seq, size, gi, yielded, tmp_files, PIL_AVAILABLE, in_texts,
                   out_area, session, uploaded, prior, runs>>

Next ==
    \/ BuildRequest
    \/ \E c \in Contents : CallReturns(c)
    \/ CallRaises
    \/ \E c \in Contents : RetryReturns(c)
    \/ RetryRaises
    \/ Finish
    \/ MainWrites

Spec == Init /\ [][Next]_vars

-----------------------------------------------------------------------------
(* chunked on its own: any sequence, any batch size *)

Letters == {"a", "b"}

SeqsUpTo(n) == UNION {[1..k -> Letters] : k \in 0..n}

InitChunked ==
    /\ seq \in SeqsUpTo(MaxSeqLen)
    /\ size \in 1..MaxBatchSize
    /\ gi = 0
    /\ yielded = <<>>
    /\ image_paths = <<>>
    /\ pc = "chunked"
    /\ content = <<>>
    /\ merged = MERGED0
    /\ total_pages = 0
    /\ calls = <<>>
    /\ frags = <<>>
    /\ ret = <<>>
    /\ error = "none"
    /\ PIL_AVAILABLE = TRUE
    /\ tmp_files = <<>>
    /\ out = <<>>
    /\ in_texts = <<>>
    /\ out_area = <<>>
    /\ session = EmptyMap
    /\ uploaded = <<>>
    /\ prior = EmptyMap
    /\ runs = 0

NextChunked ==
    /\ Yield
    /\ UNCHANGED <<image_paths, pc, content, merged, total_pages, calls, frags,
                   ret, error, tmp_files>>
    /\ UNCHANGED outside

SpecChunked == InitChunked /\ [][NextChunked]_vars

-----------------------------------------------------------------------------
(* infer_area_from_texts on its own: any texts over a few tokens *)

MaxTokens == 4

InferTokens ==
    {"2.000,0 m", "1.500,0 m", "1,25 m", "2,35 m", "1,00001 m", "1,00002 m",
     "0,00001 m", "0,0 m"}

TokenSeqs == UNION {[1..k -> InferTokens] : k \in 0..MaxTokens}

\* one text, or the same tokens as a first text of one token and a second
InferInputs ==
    {<<t>> : t \in TokenSeqs}
    \cup {<<SubSeq(t, 1, 1), SubSeq(t, 2, Len(t))>> : t \in TokenSeqs \ {<<>>}}

InitInfer ==
    /\ in_texts \in InferInputs
    /\ out_area = <<>>
    /\ pc = "infer"
    /\ image_paths = <<>>
    /\ content = <<>>
    /\ merged = MERGED0
    /\ total_pages = 0
    /\ calls = <<>>
    /\ frags = <<>>
    /\ ret = <<>>
    /\ error = "none"
    /\ seq = <<>>
    /\ size = MAX_IMAGES_PER_CALL
    /\ gi = 0
    /\ yielded = <<>>
    /\ PIL_AVAILABLE = TRUE
    /\ tmp_files = <<>>
    /\ out = <<>>
    /\ session = EmptyMap
    /\ uploaded = <<>>
    /\ prior = EmptyMap
    /\ runs = 0

\* infer_area_from_texts(*texts) returns
Infer ==
    /\ pc = "infer"
    /\ out_area = <<>>
    /\ out_area' = <<infer_area_from_texts(in_texts)>>
    /\ pc' = "inferred"
    /\ UNCHANGED <<image_paths, content, merged, total_pages, calls, frags, ret,
                   error, seq, size, gi, yielded, PIL_AVAILABLE, tmp_files, out,
                   in_texts, session, uploaded, prior, runs>>

NextInfer == Infer

SpecInfer == InitInfer /\ [][NextInfer]_vars

-----------------------------------------------------------------------------
(* The dashboard: streamlit_app.py *)

MaxRuns == 2

\* the PDFs a user can put in the uploader
Docs == {[name |-> "a.pdf", pages |-> 1], [name |-> "b.pdf", pages |-> MaxPages]}

\* the name NamedTemporaryFile(suffix=".png", delete=False) gives the file of
\* page i in the conversion of press number run: no two files share a name
TmpPng(run, i) == "tmp_" \o ToString(run) \o "_" \o ToString(i) \o ".png"

\* the paths pdf_bytes_to_images has appended after n pages
pdf_bytes_to_images(run, n) == [i \in 1..n |-> TmpPng(run, i)]

\* the files those paths name; nothing removes them
PngFiles(paths) ==
    [i \in DOMAIN paths |->
        [by |-> "pdf_bytes_to_images", src |-> paths[i], width |-> 0, quality |-> 0]]

\* what the model answers in the dashboard runs
DashContents ==
    {JsonText(Obj(One("proprietarios", Arr(<<O_CPF>>)))),
     JsonText(Obj(One("proprietarios", Arr(<<O_PLAIN>>)))),
     Garbage}

\* json.dumps(data, ...).encode("utf-8")
JsonDumps(data) == JsonText(Obj(data))

\* lines 131-132 of a script run
SetUploadedName(ss, up) ==
    IF up # <<>> /\ "uploaded_name" \notin DOMAIN ss
    THEN Put(ss, "uploaded_name", up[1].name)
    ELSE ss

SESSION_KEYS == <<"uploaded_name", "image_paths", "data", "json_bytes">>

\* for k in [...]: st.session_state.pop(k, None)
RECURSIVE PopAll(_, _)
PopAll(ss, keys) ==
    IF keys = <<>> THEN ss ELSE PopAll(Pop(ss, Head(keys)), Tail(keys))

InitDashboard ==
    /\ pc = "idle"
    /\ session = EmptyMap
    /\ uploaded = <<>>
    /\ prior = EmptyMap
    /\ runs = 0
    /\ image_paths = <<>>
    /\ content = <<>>
    /\ merged = MERGED0
    /\ total_pages = 0
    /\ calls = <<>>
    /\ frags = <<>>
    /\ ret = <<>>
    /\ error = "none"
    /\ seq = <<>>
    /\ size = MAX_IMAGES_PER_CALL
    /\ gi = 0
    /\ yielded = <<>>
    /\ PIL_AVAILABLE = TRUE
    /\ tmp_files = <<>>
    /\ out = <<>>
    /\ in_texts = <<>>
    /\ out_area = <<>>

\* the user puts a PDF in the uploader; the script runs again
Upload(d) ==
    /\ pc = "idle"
    /\ uploaded # <<d>>
    /\ uploaded' = <<d>>
    /\ session' = SetUploadedName(session, uploaded')
    /\ UNCHANGED <<image_paths, pc, content, merged, total_pages, calls, frags,
                   ret, error, seq, size, gi, yielded, PIL_AVAILABLE, tmp_files,
                   out, in_texts, out_area, prior, runs>>

\* the extract button is pressed and pdf_bytes_to_images returns: line 169
\* assigns st.session_state.image_paths, then extract_with_openai starts
ExtractPressed ==
    /\ pc = "idle"
    /\ uploaded # <<>>
    /\ runs < MaxRuns
    /\ runs' = runs + 1
    /\ prior' = session
    /\ image_paths' = pdf_bytes_to_images(runs', uploaded[1].pages)
    /\ tmp_files' = tmp_files \o PngFiles(image_paths')
    /\ session' = Put(session, "image_paths", image_paths')
    /\ pc' = "loop"
    /\ content' = <<>>
    /\ merged' = MERGED0
    /\ total_pages' = 0
    /\ calls' = <<>>
    /\ frags' = <<>>
    /\ ret' = <<>>
    /\ error' = "none"
    /\ seq' = Enumerate(image_paths')
    /\ gi' = 0
    /\ yielded' = <<>>
    /\ UNCHANGED <<size, PIL_AVAILABLE, out, in_texts, out_area, uploaded>>

\* the extract button is pressed and pdf_bytes_to_images raises after it made
\* the files of n pages: line 169 assigns nothing
ExtractPressedConversionRaises(n) ==
    /\ pc = "idle"
    /\ uploaded # <<>>
    /\ runs < MaxRuns
    /\ n < uploaded[1].pages
    /\ runs' = runs + 1
    /\ prior' = session
    /\ tmp_files' = tmp_files \o PngFiles(pdf_bytes_to_images(runs', n))
    /\ pc' = "failed"
    /\ error' = "conversion"
    /\ UNCHANGED <<image_paths, content, merged, total_pages, calls, frags, ret,
                   seq, size, gi, yielded, PIL_AVAILABLE, out, in_texts,
                   out_area, session, uploaded>>

\* extract_from_images returned: lines 186-187
Store ==
    /\ pc = "done"
    /\ session' = Put(Put(session, "data", ret[1]), "json_bytes", JsonDumps(ret[1]))
    /\ pc' = "idle"
    /\ UNCHANGED <<image_paths, content, merged, total_pages, calls, frags, ret,
                   error, seq, size, gi, yielded, PIL_AVAILABLE, tmp_files, out,
                   in_texts, out_area, uploaded, prior, runs>>

\* except Exception as e: the failure is shown, nothing else is done
Catch ==
    /\ pc = "failed"
    /\ pc' = "idle"
    /\ UNCHANGED <<image_paths, content, merged, total_pages, calls, frags, ret,
                   error, seq, size, gi, yielded, PIL_AVAILABLE, tmp_files, out,
                   in_texts, out_area, session, uploaded, prior, runs>>

\* reset_app, and the script run st.rerun() starts
Reset ==
    /\ pc = "idle"
    /\ session' = SetUploadedName(PopAll(session, SESSION_KEYS), uploaded)
    /\ UNCHANGED <<image_paths, pc, content, merged, total_pages, calls, frags,
                   ret, error, seq, size, gi, yielded, PIL_AVAILABLE, tmp_files,
                   out, in_texts, out_area, uploaded, prior, runs>>

NextDashboard ==
    \/ \E d \in Docs : Upload(d)
    \/ ExtractPressed
    \/ \E n \in 0..MaxPages : ExtractPressedConversionRaises(n)
    \/ BuildRequest
    \/ \E c \in DashContents : CallReturns(c)
    \/ CallRaises
    \/ \E c \in DashContents : RetryReturns(c)
    \/ RetryRaises
    \/ Finish
    \/ Store
    \/ Catch
    \/ Reset

SpecDashboard == InitDashboard /\ [][NextDashboard]_vars

-----------------------------------------------------------------------------
(* Vocabulary of the properties *)

ObjOf(v) == IF v.t = "obj" THEN v.o ELSE EmptyMap
ArrOf(v) == IF v.t = "arr" THEN v.a ELSE <<>>

\* the array a fragment holds under a top-level key (none when absent or null)
FragArr(d, key) == ArrOf(Get(d, key))

\* the array a fragment holds under selos_e_custas.k
FragSelosArr(d, k) == ArrOf(Get(ObjOf(Get(d, "selos_e_custas")), k))

RECURSIVE ConcatTop(_, _)
ConcatTop(fs, key) ==
    IF fs = <<>> THEN <<>> ELSE FragArr(Head(fs), key) \o ConcatTop(Tail(fs), key)

RECURSIVE ConcatSelosArr(_, _)
ConcatSelosArr(fs, k) ==
    IF fs = <<>> THEN <<>> ELSE FragSelosArr(Head(fs), k) \o ConcatSelosArr(Tail(fs), k)

IsPrefix(s, t) == Len(s) <= Len(t) /\ SubSeq(t, 1, Len(s)) = s

LEGACY == "pessoas_envovidas"
CORRECT == "pessoas_envolvidas"

LegacyOnly(r) == LEGACY \in DOMAIN r /\ CORRECT \notin DOMAIN r

\* an act record after the key migration
Migrated(r) ==
    IF LegacyOnly(r)
    THEN [k \in (DOMAIN r \ {LEGACY}) \cup {CORRECT} |->
            IF k = CORRECT
            THEN (IF NotInEmpties(r[LEGACY]) THEN r[LEGACY] ELSE EmptyArr)
            ELSE r[k]]
    ELSE r

TOP_ARRAYS == {"proprietarios", "registros", "valores_mencionados", "referencias"}
SELOS_ARRAYS == {"guias", "selos"}

\* a merge of a batch happens in this step
MergeStep == frags' # frags

\* the fragment a merge step merges
Merging == frags'[Len(frags')]

Returned == ret # <<>>
Record == ret[1]

\* the act records as the fragments delivered them, in batch order
SourceRegs == ConcatTop(frags, "registros")

-----------------------------------------------------------------------------
(* C1 *)

\* every merge appends the fragment's array to the accumulator's
AppendsOnMerge ==
    MergeStep =>
        /\ \A key \in TOP_ARRAYS :
              /\ IsPrefix(merged[key].a, merged'[key].a)
              /\ merged'[key].a = merged[key].a \o FragArr(Merging, key)
        /\ \A k \in SELOS_ARRAYS :
              /\ IsPrefix(merged["selos_e_custas"].o[k].a, merged'["selos_e_custas"].o[k].a)
              /\ merged'["selos_e_custas"].o[k].a
                    = merged["selos_e_custas"].o[k].a \o FragSelosArr(Merging, k)

ReturnsConcatenation ==
    Returned =>
        /\ \A key \in TOP_ARRAYS : Record[key].a = ConcatTop(frags, key)
        /\ \A k \in SELOS_ARRAYS :
              Record["selos_e_custas"].o[k].a = ConcatSelosArr(frags, k)

ReturnsConcatenationMigrated ==
    Returned =>
        /\ \A key \in TOP_ARRAYS \ {"registros"} : Record[key].a = ConcatTop(frags, key)
        /\ \A k \in SELOS_ARRAYS :
              Record["selos_e_custas"].o[k].a = ConcatSelosArr(frags, k)
        /\ Record["registros"].a
              = [i \in DOMAIN SourceRegs |-> Obj(Migrated(SourceRegs[i].o))]

\* C1 as stated: every array of the returned record equals the concatenation,
\* in batch order, of the fragments' arrays, and every merge extends the
\* accumulator's arrays.
C1_Original == [][AppendsOnMerge /\ ReturnsConcatenation']_vars

\* C1 amended: every merge extends each accumulator array by the fragment's
\* array, and the returned proprietarios, valores_mencionados, referencias,
\* guias and selos equal the concatenation of the fragments' arrays in batch
\* order; the returned registros equals that concatenation with the legacy
\* key migration applied to each record.
C1_Amended == [][AppendsOnMerge /\ ReturnsConcatenationMigrated']_vars

\* a returned record merged from two batches, the second bringing two owners
\* after the first's one, the first bringing a legacy-key act
C1_Witness ==
    /\ Returned
    /\ Len(frags) = 2
    /\ Len(FragArr(frags[1], "proprietarios")) = 1
    /\ Len(FragArr(frags[2], "proprietarios")) = 2
    /\ Len(Record["proprietarios"].a) = 3
    /\ \E i \in DOMAIN SourceRegs : LegacyOnly(SourceRegs[i].o)

-----------------------------------------------------------------------------
(* C2 *)

\* d holds a non-empty value under k
Holds(d, k) == k \in DOMAIN d /\ NotInEmpties(d[k])

\* a key of d that holds a non-empty value keeps it in e
Keeps(d, e, k) == Holds(d, k) => (k \in DOMAIN e /\ e[k] = d[k])

\* an earlier batch filled the metadata key k
Filled(k) ==
    \E i \in DOMAIN frags : Holds(ObjOf(Get(frags[i], "document_metadata")), k)

MetadataKept ==
    \A k \in DOMAIN merged["document_metadata"].o :
        Filled(k) => Keeps(merged["document_metadata"].o,
                           merged'["document_metadata"].o, k)

ImovelKept ==
    \A k \in DOMAIN merged["imovel"].o :
        Keeps(merged["imovel"].o, merged'["imovel"].o, k)

SelosKept ==
    \A k \in {"itbi", "custas"} :
        Keeps(merged["selos_e_custas"].o, merged'["selos_e_custas"].o, k)

\* a metadata key changes only to a non-empty value of the merged fragment
MetadataChangesToBatch ==
    \A k \in DOMAIN merged["document_metadata"].o :
        \/ Keeps(merged["document_metadata"].o, merged'["document_metadata"].o, k)
        \/ /\ Holds(ObjOf(Get(Merging, "document_metadata")), k)
           /\ merged'["document_metadata"].o[k]
                 = ObjOf(Get(Merging, "document_metadata"))[k]

\* C2 as stated: once a scalar field (a document_metadata key, a top-level
\* imovel key, selos_e_custas.itbi or custas) holds a non-empty value after
\* some batch, no later batch's merge changes it.
C2_Original ==
    [][MergeStep => (MetadataKept /\ ImovelKept /\ SelosKept)]_vars

\* C2 amended: once a top-level imovel key, selos_e_custas.itbi or
\* selos_e_custas.custas holds a non-empty value, no later batch's merge
\* changes it; a document_metadata key that holds a non-empty value changes
\* only to a non-empty value a later batch reports for that key.
C2_Amended ==
    [][MergeStep => (ImovelKept /\ SelosKept /\ MetadataChangesToBatch)]_vars

\* two batches reported different non-empty descriptions, the first of them
\* with an itbi: the first description is the accumulator's
C2_Witness ==
    /\ Len(frags) = 2
    /\ Holds(ObjOf(Get(frags[1], "imovel")), "descricao")
    /\ Holds(ObjOf(Get(frags[2], "imovel")), "descricao")
    /\ frags[1]["imovel"].o["descricao"] # frags[2]["imovel"].o["descricao"]
    /\ merged["imovel"].o["descricao"] = frags[1]["imovel"].o["descricao"]
    /\ Holds(ObjOf(Get(frags[1], "selos_e_custas")), "itbi")

-----------------------------------------------------------------------------
(* C3 *)

RECURSIVE SumLen(_)
SumLen(groups) == IF groups = <<>> THEN 0 ELSE Len(Head(groups)) + SumLen(Tail(groups))

\* some merged fragment reported a page count of its own
ReportedPages ==
    \E i \in DOMAIN frags :
        Holds(ObjOf(Get(frags[i], "document_metadata")), "paginas_processadas")

\* C3: the returned paginas_processadas equals the number N of input pages,
\* which is the sum of the batch sizes, whatever the fragments reported.
C3_PagesProcessed ==
    Returned =>
        /\ Record["document_metadata"].o["paginas_processadas"] = Num(Len(image_paths))
        /\ SumLen(yielded) = Len(image_paths)

\* a returned record of a three-page run in which a fragment reported a count
C3_Witness ==
    /\ Returned
    /\ Len(image_paths) = 3
    /\ ReportedPages
    /\ Record["document_metadata"].o["paginas_processadas"] = Num(3)

-----------------------------------------------------------------------------
(* C4 *)

\* the indices in calls of the calls made for batch b, in order
CallsOf(b) == SelectSeq(calls, LAMBDA c : c.batch = b)

\* the payload carries every page of batch b, in order, at one tier
IsTier(payload, b, width, quality) ==
    /\ Len(payload) = Len(yielded[b])
    /\ \A i \in DOMAIN payload :
          /\ payload[i].path = yielded[b][i][2]
          /\ payload[i].width = width
          /\ payload[i].quality = quality

\* the retry of batch b is still to be made
RetryPending(b) == pc = "retry" /\ b = Len(yielded)

\* C4: the first call of a batch sends every page at the normal tier; a
\* second call is made exactly when the first raised, and sends every page
\* of the same batch at the light tier; no batch gets more than two calls.
C4_RetryPolicy ==
    \A b \in DOMAIN yielded :
        LET cs == CallsOf(b)
        IN  /\ Len(cs) <= 2
            /\ (b < Len(yielded) \/ pc \notin {"call"}) => Len(cs) >= 1
            /\ Len(cs) >= 1 =>
                  IsTier(cs[1].payload, b, TARGET_WIDTH_PX, JPEG_QUALITY)
            /\ Len(cs) = 2 =>
                  /\ cs[1].outcome = "raise"
                  /\ IsTier(cs[2].payload, b, LIGHT_WIDTH_PX, LIGHT_JPEG_QUALITY)
            /\ (Len(cs) = 1 /\ cs[1].outcome = "raise") => RetryPending(b)

\* a returned run whose first batch needed the light retry and whose second
\* batch did not
C4_Witness ==
    /\ Returned
    /\ Len(yielded) = 2
    /\ Len(CallsOf(1)) = 2
    /\ CallsOf(1)[1].outcome = "raise"
    /\ CallsOf(1)[2].outcome = "object"
    /\ Len(CallsOf(2)) = 1

-----------------------------------------------------------------------------
(* C5 *)

\* both calls of batch b raised
BothFailed(b) ==
    /\ Len(CallsOf(b)) = 2
    /\ CallsOf(b)[1].outcome = "raise"
    /\ CallsOf(b)[2].outcome = "raise"

\* C5: when both calls of a batch k raised, the run has failed with the
\* retry's exception, the retry is the last call ever made, k is the last
\* batch taken, only the batches before k were merged and nothing is returned.
C5_SecondFailureFatal ==
    \A k \in DOMAIN yielded :
        BothFailed(k) =>
            /\ pc = "failed"
            /\ error = "retry_call"
            /\ ret = <<>>
            /\ k = Len(yielded)
            /\ calls[Len(calls)].batch = k
            /\ Len(frags) = k - 1
            /\ total_pages = SumLen(SubSeq(yielded, 1, k - 1))

\* the first batch failed twice while pages were still waiting
C5_Witness ==
    /\ BothFailed(1)
    /\ pc = "failed"
    /\ gi < Len(seq)

-----------------------------------------------------------------------------
(* C6 *)

\* the returned act records
OutRegs == Record["registros"].a

\* C6 as stated: no returned act record carries the legacy key, whatever the
\* fragments held.
C6_Original ==
    Returned => \A i \in DOMAIN OutRegs : LEGACY \notin DOMAIN OutRegs[i].o

\* C6 amended: a returned act record carries the legacy key exactly when the
\* fragment delivered that record with both the legacy and the correct key;
\* a record delivered with the legacy key alone never keeps it.
C6_Amended ==
    Returned =>
        /\ Len(OutRegs) = Len(SourceRegs)
        /\ \A i \in DOMAIN OutRegs :
              LEGACY \in DOMAIN OutRegs[i].o
                 <=> {LEGACY, CORRECT} \subseteq DOMAIN SourceRegs[i].o

\* a returned record with an act delivered with the legacy key alone and an
\* act delivered with both keys
C6_Witness ==
    /\ Returned
    /\ \E i \in DOMAIN SourceRegs :
          /\ LegacyOnly(SourceRegs[i].o)
          /\ LEGACY \notin DOMAIN OutRegs[i].o
    /\ \E j \in DOMAIN SourceRegs :
          /\ {LEGACY, CORRECT} \subseteq DOMAIN SourceRegs[j].o
          /\ LEGACY \in DOMAIN OutRegs[j].o

-----------------------------------------------------------------------------
(* C7 *)

\* record r came out as q: only the legacy key was renamed, its value is v
RenamedTo(r, q, v) ==
    /\ DOMAIN q = (DOMAIN r \ {LEGACY}) \cup {CORRECT}
    /\ q[CORRECT] = v
    /\ \A k \in DOMAIN r \ {LEGACY} : q[k] = r[k]

\* C7 as stated: a record with only the legacy key comes out with only the
\* correct key, holding the legacy value itself; a record that holds the
\* correct key comes out unchanged.
C7_Original ==
    Returned =>
        /\ Len(OutRegs) = Len(SourceRegs)
        /\ \A i \in DOMAIN OutRegs :
              /\ LegacyOnly(SourceRegs[i].o) =>
                    RenamedTo(SourceRegs[i].o, OutRegs[i].o, SourceRegs[i].o[LEGACY])
              /\ CORRECT \in DOMAIN SourceRegs[i].o => OutRegs[i] = SourceRegs[i]

\* C7 amended: a record with only the legacy key comes out with only the
\* correct key, holding the legacy value when that value is non-empty and the
\* empty list when it is empty (null); a record that holds the correct key
\* comes out unchanged, also when it holds the legacy key with other content.
C7_Amended ==
    Returned =>
        /\ Len(OutRegs) = Len(SourceRegs)
        /\ \A i \in DOMAIN OutRegs :
              /\ LegacyOnly(SourceRegs[i].o) =>
                    RenamedTo(SourceRegs[i].o, OutRegs[i].o,
                              IF NotInEmpties(SourceRegs[i].o[LEGACY])
                              THEN SourceRegs[i].o[LEGACY] ELSE EmptyArr)
              /\ CORRECT \in DOMAIN SourceRegs[i].o => OutRegs[i] = SourceRegs[i]

\* a returned record with a migrated act that kept its other key, an act whose
\* legacy value was null, and an act that held both keys with different content
C7_Witness ==
    /\ Returned
    /\ \E n \in DOMAIN SourceRegs :
          /\ LegacyOnly(SourceRegs[n].o)
          /\ SourceRegs[n].o[LEGACY] = Null
          /\ OutRegs[n].o[CORRECT] = EmptyArr
    /\ \E i \in DOMAIN SourceRegs :
          /\ LegacyOnly(SourceRegs[i].o)
          /\ NotInEmpties(SourceRegs[i].o[LEGACY])
          /\ "numero" \in DOMAIN OutRegs[i].o
          /\ OutRegs[i].o[CORRECT] = SourceRegs[i].o[LEGACY]
    /\ \E j \in DOMAIN SourceRegs :
          /\ {LEGACY, CORRECT} \subseteq DOMAIN SourceRegs[j].o
          /\ SourceRegs[j].o[LEGACY] # SourceRegs[j].o[CORRECT]
          /\ OutRegs[j] = SourceRegs[j]

-----------------------------------------------------------------------------
(* C8 *)

RECURSIVE Flatten(_)
Flatten(groups) == IF groups = <<>> THEN <<>> ELSE Head(groups) \o Flatten(Tail(groups))

\* ceil(n / b)
CeilDiv(n, b) == (n + b - 1) \div b

\* chunked has yielded its last group
Exhausted == gi >= Len(seq)

\* C8: chunked yields ceil(N/B) groups, each non-empty and of size <= B, only
\* the last possibly smaller than B, the j-th group being the pages at
\* positions (j-1)*B+1 .. min(j*B, N) (so no two groups overlap), and the
\* groups in yield order concatenate to the sequence.
C8_Chunked ==
    /\ \A j \in DOMAIN yielded :
          /\ yielded[j] # <<>>
          /\ Len(yielded[j]) <= size
          /\ (j < Len(yielded) \/ ~Exhausted) => Len(yielded[j]) = size
          /\ yielded[j] = [p \in 1..Len(yielded[j]) |-> seq[(j - 1) * size + p]]
    /\ IsPrefix(Flatten(yielded), seq)
    /\ Exhausted =>
          /\ Len(yielded) = CeilDiv(Len(seq), size)
          /\ Flatten(yielded) = seq

\* four pages in groups of three: a full group and a smaller last one
C8_Witness ==
    /\ Exhausted
    /\ Len(seq) = 4
    /\ size = 3
    /\ Len(yielded) = 2
    /\ Len(yielded[2]) = 1

-----------------------------------------------------------------------------
(* C9 *)

\* the call made in this step was answered with an empty body
AnsweredEmpty == calls' # calls /\ calls'[Len(calls')].outcome = "none"

\* the call made in this step was answered with text that is no JSON object
AnsweredMalformed ==
    /\ calls' # calls
    /\ calls'[Len(calls')].outcome \in {"garbage", "non_object"}

\* the batch counts as the empty object: nothing raised, the accumulator as
\* it was, its pages counted, the loop goes on
TreatedAsEmptyObject ==
    /\ error' = "none"
    /\ merged' = merged
    /\ total_pages' = total_pages + Len(Batch)
    /\ pc' = "loop"

\* C9: a malformed or empty response is treated as the empty object: no
\* error, nothing contributed to the accumulator, the batch's pages counted,
\* the run continues with the next batch.
C9_MalformedAsEmpty ==
    [][(AnsweredEmpty \/ AnsweredMalformed) => TreatedAsEmptyObject]_vars

\* the part of C9 the code keeps: an empty body is treated as the empty object
C9_EmptyAsEmpty == [][AnsweredEmpty => TreatedAsEmptyObject]_vars

\* a run went on after an empty body, and returned
C9_EmptyWitness ==
    /\ Returned
    /\ \E i \in DOMAIN calls : calls[i].outcome = "none"
    /\ Len(frags) = 2

-----------------------------------------------------------------------------
(* C10 *)

\* the metadata object of the fragment being merged ({} when null or absent)
BatchMd == ObjOf(Get(Merging, "document_metadata"))

\* C10: in the metadata merge of a batch, a key the batch holds with a
\* non-empty value gets the batch's value (added or replaced); every other
\* key of the accumulator, named by the batch with an empty value or not
\* named at all, is unchanged, and no other key appears.
C10_MetadataMerge ==
    [][MergeStep =>
          \A K \in DOMAIN merged["document_metadata"].o
                   \cup DOMAIN merged'["document_metadata"].o \cup DOMAIN BatchMd :
             IF Holds(BatchMd, K)
             THEN /\ K \in DOMAIN merged'["document_metadata"].o
                  /\ merged'["document_metadata"].o[K] = BatchMd[K]
             ELSE /\ K \in DOMAIN merged'["document_metadata"].o
                        <=> K \in DOMAIN merged["document_metadata"].o
                  /\ K \in DOMAIN merged["document_metadata"].o =>
                        merged'["document_metadata"].o[K]
                           = merged["document_metadata"].o[K]
      ]_vars

\* the second batch replaced the register number, left the city it did not
\* name, and a batch's empty value left a filled key as it was
C10_Witness ==
    /\ Len(frags) = 2
    /\ Holds(ObjOf(Get(frags[1], "document_metadata")), "matricula")
    /\ Holds(ObjOf(Get(frags[1], "document_metadata")), "cidade")
    /\ Holds(ObjOf(Get(frags[2], "document_metadata")), "matricula")
    /\ "cidade" \notin DOMAIN ObjOf(Get(frags[2], "document_metadata"))
    /\ frags[1]["document_metadata"].o["matricula"]
          # frags[2]["document_metadata"].o["matricula"]
    /\ merged["document_metadata"].o["matricula"]
          = frags[2]["document_metadata"].o["matricula"]
    /\ merged["document_metadata"].o["cidade"]
          = frags[1]["document_metadata"].o["cidade"]

-----------------------------------------------------------------------------
(* C11 *)

\* the imovel object of the fragment being merged ({} when null or absent)
BatchIm == ObjOf(Get(Merging, "imovel"))

\* C11: in the merge of a batch, a top-level imovel key K gets the batch's
\* value exactly when the batch's value for K is non-empty and the accumulator
\* holds no non-empty value for K; it then holds the batch's whole value;
\* every other key of the accumulator's imovel is unchanged and no other key
\* appears.
C11_ImovelAtomic ==
    [][MergeStep =>
          \A K \in DOMAIN merged["imovel"].o \cup DOMAIN merged'["imovel"].o
                   \cup DOMAIN BatchIm :
             IF Holds(BatchIm, K) /\ ~Holds(merged["imovel"].o, K)
             THEN /\ K \in DOMAIN merged'["imovel"].o
                  /\ merged'["imovel"].o[K] = BatchIm[K]
             ELSE /\ K \in DOMAIN merged'["imovel"].o <=> K \in DOMAIN merged["imovel"].o
                  /\ K \in DOMAIN merged["imovel"].o =>
                        merged'["imovel"].o[K] = merged["imovel"].o[K]
      ]_vars

\* the first batch brought a partial areas object; the second brought a
\* description and an areas object with another leaf: the description was
\* copied, the accumulator's areas is still the first batch's, whole
C11_Witness ==
    /\ Len(frags) = 2
    /\ Holds(ObjOf(Get(frags[1], "imovel")), "areas")
    /\ Holds(ObjOf(Get(frags[2], "imovel")), "areas")
    /\ ~Holds(ObjOf(Get(frags[1], "imovel")), "descricao")
    /\ Holds(ObjOf(Get(frags[2], "imovel")), "descricao")
    /\ DOMAIN frags[2]["imovel"].o["areas"].o
          \ DOMAIN frags[1]["imovel"].o["areas"].o # {}
    /\ merged["imovel"].o["areas"] = frags[1]["imovel"].o["areas"]
    /\ merged["imovel"].o["descricao"] = frags[2]["imovel"].o["descricao"]

-----------------------------------------------------------------------------
(* C12 *)

\* the imovel object fragment i delivered
FragIm(i) == ObjOf(Get(frags[i], "imovel"))

\* the scalar leaves of an imovel object: <<k>> for a top-level scalar,
\* <<k, l>> for the leaf l of the sub-group k
Paths(d) ==
    {<<k>> : k \in {x \in DOMAIN d : d[x].t # "obj"}}
    \cup UNION {{<<k, l>> : l \in DOMAIN d[k].o} : k \in {x \in DOMAIN d : d[x].t = "obj"}}

LeafAt(d, p) ==
    IF Len(p) = 1 THEN Get(d, p[1]) ELSE Get(ObjOf(Get(d, p[1])), p[2])

\* fragment i supplied a non-empty value for the leaf p
SuppliedBy(i, p) == p \in Paths(FragIm(i)) /\ NotInEmpties(LeafAt(FragIm(i), p))

FirstSupplier(p) ==
    CHOOSE i \in DOMAIN frags :
        SuppliedBy(i, p) /\ \A j \in 1..(i - 1) : ~SuppliedBy(j, p)

\* every leaf a batch supplied holds the first value supplied for it
FirstWinsLeaves ==
    \A i \in DOMAIN frags : \A p \in Paths(FragIm(i)) :
        SuppliedBy(i, p) =>
            LeafAt(merged["imovel"].o, p) = LeafAt(FragIm(FirstSupplier(p)), p)

\* a leaf that holds a non-empty value is not assigned again
LeavesKept ==
    \A p \in Paths(merged["imovel"].o) :
        NotInEmpties(LeafAt(merged["imovel"].o, p)) =>
            LeafAt(merged'["imovel"].o, p) = LeafAt(merged["imovel"].o, p)

\* C12: after the batches are merged, every scalar leaf of imovel, nested or
\* not, holds the first non-empty value any batch supplied for it, and a leaf
\* once filled is never assigned again.
C12_ScalarLeaves ==
    [][MergeStep => (LeavesKept /\ FirstWinsLeaves')]_vars

\* the part of C12 the code keeps: a filled leaf is never assigned again
C12_LeavesKept == [][MergeStep => LeavesKept]_vars

-----------------------------------------------------------------------------
(* C13 *)

\* extract_with_openai returns in this step
Returning == ret' # ret

\* the areas object of the merged imovel, before and after the derivation
PreAreas == ObjOf(Get(merged["imovel"].o, "areas"))
PostAreas == ObjOf(Get(merged'["imovel"].o, "areas"))

\* confidence.derived.areas of the returned record
DerivedAreas == ObjOf(Get(ObjOf(Get(ObjOf(Get(merged', "confidence")), "derived")), "areas"))

\* the tokens of a text field of the merged imovel
TokensOf(k) ==
    IF Get(merged["imovel"].o, k).t = "str" THEN merged["imovel"].o[k].s ELSE <<>>

\* what the inference gives over the three texts, and over the two
InferredTotal ==
    infer_area_from_texts(<<TokensOf("descricao"), TokensOf("confrontacoes"),
                            TokensOf("dimensoes")>>)
InferredTerreno ==
    infer_area_from_texts(<<TokensOf("confrontacoes"), TokensOf("dimensoes")>>)

\* the entry k of d is in e as it was (absent or the same value)
SameEntry(d, e, k) ==
    /\ k \in DOMAIN e <=> k \in DOMAIN d
    /\ k \in DOMAIN d => e[k] = d[k]

C13_WitnessSynthesized ==
    /\ Returned
    /\ Get(ObjOf(Get(Record["imovel"].o, "areas")), "area_total_m2") = Num(20500)
    /\ Get(ObjOf(Get(Record["imovel"].o, "areas")), "area_total_str")
          = Str(<<"205", ".", "0", "0", " m2 (inferido)">>)

-----------------------------------------------------------------------------
(* C14 *)

\* the terrain derivation writes: no area_terreno_m2 yet, and the two texts
\* give an area
TerrenoFires == ~Truthy(Get(PreAreas, "area_terreno_m2")) /\ Truthy(InferredTerreno)

\* the total-area derivation writes
TotalFires == ~Truthy(Get(PreAreas, "area_total_m2")) /\ Truthy(InferredTotal)

TOTAL_FIELDS == {"area_total_m2", "area_total_str"}
TERRENO_FIELDS == {"area_terreno_m2", "area_terreno_str"}

\* C14: the terrain derivation fires exactly when area_terreno_m2 is absent
\* and the inference over confrontacoes and dimensoes alone (descricao left
\* out) yields an area, whether or not the total-area derivation fired; it
\* writes area_terreno_m2, area_terreno_str (when none existed) and
\* confidence.derived.areas.area_terreno_m2 and nothing else; the total-area
\* fields change only when the total-area derivation fires, and no other
\* entry of areas changes.
C14_TerrenoIndependent ==
    [][Returning =>
          /\ IF TerrenoFires
             THEN /\ Get(PostAreas, "area_terreno_m2") = InferredTerreno
                  /\ IF Holds(PreAreas, "area_terreno_str")
                     THEN PostAreas["area_terreno_str"] = PreAreas["area_terreno_str"]
                     ELSE Get(PostAreas, "area_terreno_str")
                             = FormatInferred(InferredTerreno.n)
                  /\ Get(DerivedAreas, "area_terreno_m2") = NOTE_TERRENO
             ELSE /\ \A k \in TERRENO_FIELDS : SameEntry(PreAreas, PostAreas, k)
                  /\ "area_terreno_m2" \notin DOMAIN DerivedAreas
          /\ ~TotalFires =>
                /\ \A k \in TOTAL_FIELDS : SameEntry(PreAreas, PostAreas, k)
                /\ "area_total_m2" \notin DOMAIN DerivedAreas
          /\ TotalFires => Get(DerivedAreas, "area_total_m2") = NOTE_TOTAL
          /\ \A k \in (DOMAIN PreAreas \cup DOMAIN PostAreas)
                         \ (TOTAL_FIELDS \cup TERRENO_FIELDS) :
                SameEntry(PreAreas, PostAreas, k)
          /\ DOMAIN DerivedAreas \subseteq {"area_total_m2", "area_terreno_m2"}
      ]_vars

\* both derivations fired in one run and gave different areas: the total
\* from the measures of the description, the terrain from the dimensions
C14_Witness ==
    /\ Returned
    /\ Get(ObjOf(Get(Record["imovel"].o, "areas")), "area_total_m2") = Num(20500)
    /\ Get(ObjOf(Get(Record["imovel"].o, "areas")), "area_terreno_m2") = Num(294)
    /\ DOMAIN ObjOf(Get(ObjOf(Get(Record["confidence"].o, "derived")), "areas"))
          = {"area_total_m2", "area_terreno_m2"}

\* the terrain derivation fired in a run in which the total one did not
C14_WitnessTerrenoAlone ==
    /\ Returned
    /\ DOMAIN ObjOf(Get(ObjOf(Get(Record["confidence"].o, "derived")), "areas"))
          = {"area_terreno_m2"}

-----------------------------------------------------------------------------
(* C18 *)

\* the page labels of a payload, in order
Labels(payload) == [i \in DOMAIN payload |-> payload[i].page_num]

RECURSIVE FirstAttemptLabels(_)
FirstAttemptLabels(b) ==
    IF b = 0 THEN <<>> ELSE FirstAttemptLabels(b - 1) \o Labels(CallsOf(b)[1].payload)

RECURSIVE LastAttemptLabels(_)
LastAttemptLabels(b) ==
    IF b = 0 THEN <<>>
    ELSE LastAttemptLabels(b - 1) \o Labels(CallsOf(b)[Len(CallsOf(b))].payload)

\* C18: in every request, the page at position p of the input carries the
\* label p and travels in batch ceil(p / B); a light retry carries the labels
\* of the failed first attempt in the same order; over a run that returned,
\* the labels of the first attempts, and of the attempts that were answered,
\* are 1..N in increasing order, each once.
C18_PageLabels ==
    /\ \A n \in DOMAIN calls :
          \A i \in DOMAIN calls[n].payload :
             /\ calls[n].payload[i].page_num = (calls[n].batch - 1) * size + i
             /\ calls[n].payload[i].page_num \in DOMAIN image_paths
             /\ calls[n].payload[i].path = image_paths[calls[n].payload[i].page_num]
             /\ CeilDiv(calls[n].payload[i].page_num, size) = calls[n].batch
    /\ \A b \in DOMAIN yielded :
          Len(CallsOf(b)) = 2 =>
             Labels(CallsOf(b)[2].payload) = Labels(CallsOf(b)[1].payload)
    /\ Returned =>
          /\ FirstAttemptLabels(Len(yielded)) = [p \in 1..Len(image_paths) |-> p]
          /\ LastAttemptLabels(Len(yielded)) = [p \in 1..Len(image_paths) |-> p]

\* a three-page run returned after the light retry of its first batch
C18_Witness ==
    /\ Returned
    /\ Len(image_paths) = 3
    /\ Len(CallsOf(1)) = 2
    /\ Labels(CallsOf(1)[2].payload) = <<1, 2>>
    /\ Labels(CallsOf(2)[1].payload) = <<3>>

-----------------------------------------------------------------------------
(* C20 *)

AREA_FIELDS == {"area_total_m2", "area_terreno_m2"}

InferredFor(f) == IF f = "area_total_m2" THEN InferredTotal ELSE InferredTerreno

\* the merged areas holds a non-zero number under f
Supplied(f) == Get(PreAreas, f).t = "num" /\ PreAreas[f].n # 0

\* C20: a non-zero numeric area_total_m2 (area_terreno_m2) of the merged
\* record is returned as it is, with no confidence.derived.areas entry for
\* it; and confidence.derived.areas holds an entry for the field exactly when
\* the derivation wrote the field's value in this run, the value being the
\* inference's.
C20_Provenance ==
    [][Returning =>
          \A f \in AREA_FIELDS :
             /\ Supplied(f) =>
                   /\ Get(PostAreas, f) = PreAreas[f]
                   /\ f \notin DOMAIN DerivedAreas
             /\ f \in DOMAIN DerivedAreas <=> ~SameEntry(PreAreas, PostAreas, f)
             /\ f \in DOMAIN DerivedAreas => Get(PostAreas, f) = InferredFor(f)
      ]_vars

\* a returned record that kept the total area a batch supplied although the
\* description held measures, and whose terrain area was inferred
C20_Witness ==
    /\ Returned
    /\ \E i \in DOMAIN frags :
          Get(ObjOf(Get(ObjOf(Get(frags[i], "imovel")), "areas")), "area_total_m2") = Num(5000)
    /\ Get(ObjOf(Get(Record["imovel"].o, "areas")), "area_total_m2") = Num(5000)
    /\ Holds(Record["imovel"].o, "confrontacoes")
    /\ DOMAIN ObjOf(Get(ObjOf(Get(Record["confidence"].o, "derived")), "areas"))
          = {"area_terreno_m2"}

-----------------------------------------------------------------------------
(* C15 *)

\* the positive measurements collected from the inputs, as the texts give
\* them, and to four decimals
Collected == SelectSeq(FlatMeasures(in_texts), LAMBDA v : v > 0)
ToFourDecimals(v) == ((v + 5) \div 10) * 10
CollectedRounded == [i \in DOMAIN Collected |-> ToFourDecimals(Collected[i])]

Freq(ms, x) == Cardinality({i \in DOMAIN ms : ms[i] = x})

\* the first of the values vs of ms by descending frequency, then magnitude
Top(ms, vs) ==
    CHOOSE x \in vs :
        \A y \in vs : Freq(ms, y) < Freq(ms, x) \/ (Freq(ms, y) = Freq(ms, x) /\ y <= x)

\* the second
Second(ms) == Top(ms, Range(ms) \ {Top(ms, Range(ms))})

\* r is what the claim returns for a product of h hundredths and rest/10^8
\* of a hundredth: the product itself (or, rounded, the nearest hundredth)
\* exactly when it lies strictly between 0 and 1,000,000, else no inference
ReturnsProduct(r, h, rest, rounded) ==
    IF (h > 0 \/ rest > 0) /\ h < 100000000
    THEN /\ r.t = "num"
         /\ IF rounded
            THEN r.n = (IF rest < 50000000 THEN h ELSE h + 1)
            ELSE r.n = h /\ rest = 0
    ELSE r = Null

ReturnsProductOf(r, a, b, rounded) ==
    ReturnsProduct(r, TimesHundredths(a, b), TimesRest(a, b), rounded)

\* r is what the claim returns over the measurements ms
Ranks(r, ms, rounded) ==
    IF Cardinality(Range(ms)) < 2 THEN r = Null
    ELSE ReturnsProductOf(r, Top(ms, Range(ms)), Second(ms), rounded)

C15_WitnessRounded == out_area = <<Num(294)>> /\ Len(Collected) = 2

\* no inference for 2000 and 1500, whose product is above 1,000,000
C15_WitnessHuge ==
    /\ out_area = <<Null>>
    /\ Range(Collected) = {200000000, 150000000}

-----------------------------------------------------------------------------
(* C16 *)

DIGITS == {"0", "1", "2", "3", "4", "5", "6", "7", "8", "9"}

\* the owner records of a record
Owners(data) == ArrOf(Get(data, "proprietarios"))

\* an owner's cpf, if it has one, is a string of digits
CpfDigitsOnly(p) ==
    Truthy(Get(ObjOf(p), "cpf")) =>
        /\ p.o["cpf"].t = "str"
        /\ \A i \in DOMAIN p.o["cpf"].s : p.o["cpf"].s[i] \in DIGITS

\* owner q is owner p with its cpf, if any, stripped of non-digits
StrippedFrom(q, p) ==
    IF Truthy(Get(ObjOf(p), "cpf"))
    THEN q = Obj(Put(p.o, "cpf", Str(SelectSeq(p.o["cpf"].s, LAMBDA c : c \in DIGITS))))
    ELSE q = p

\* `final` is what the extraction returned with every cpf stripped
FinalOutputOf(final, extracted) ==
    /\ Len(Owners(final)) = Len(Owners(extracted))
    /\ \A i \in DOMAIN Owners(final) :
          /\ CpfDigitsOnly(Owners(final)[i])
          /\ StrippedFrom(Owners(final)[i], Owners(extracted)[i])

\* C16: in the final output of every extraction, the JSON the command line
\* writes and the record the dashboard stores, every owner's cpf is the
\* extracted value stripped of its non-digit characters, and an owner without
\* a cpf is the owner that was extracted.
C16_CpfDigitsOnly ==
    /\ out # <<>> => FinalOutputOf(out[1], ret[1])
    /\ "data" \in DOMAIN session =>
          \A i \in DOMAIN Owners(session["data"]) :
              CpfDigitsOnly(Owners(session["data"])[i])

-----------------------------------------------------------------------------
(* C17 *)

\* the handler's except clause has just run
Caught == pc = "failed" /\ pc' = "idle"

\* C17: in the dashboard, when conversion or extraction fails during an
\* extract action, every session-state entry that existed when the button was
\* pressed holds the same value once the exception is caught.
C17_SessionIntact ==
    [][Caught =>
          \A k \in DOMAIN prior : k \in DOMAIN session' /\ session'[k] = prior[k]]_vars

-----------------------------------------------------------------------------
(* C19 *)

\* a run of the extraction has ended, with a record or with an exception
RunEnded == pc \in {"done", "failed", "written"}

\* C19: after a run ends, whether it returned a record or failed, every
\* temporary file created during it has been deleted.
C19_TempFilesDeleted == RunEnded => tmp_files = <<>>

-----------------------------------------------------------------------------
(* C21 *)

\* the confidence object fragment i reported
FragConf(i) == ObjOf(Get(frags[i], "confidence"))

\* the confidence map of the returned record
OutConf == ObjOf(Record["confidence"])

\* the derived sub-map of the returned record
OutDerived == ObjOf(Get(OutConf, "derived"))

\* what the post-processing writes under derived, and nothing else
OnlyDerivationNotes ==
    /\ DOMAIN OutDerived \subseteq {"areas"}
    /\ \A f \in DOMAIN ObjOf(Get(OutDerived, "areas")) :
          \/ f = "area_total_m2" /\ OutDerived["areas"].o[f] = NOTE_TOTAL
          \/ f = "area_terreno_m2" /\ OutDerived["areas"].o[f] = NOTE_TERRENO

\* C21: the confidence objects of the batch fragments are never merged: the
\* returned record's confidence map has derived as its only key, and derived
\* holds only the notes of the area derivation, whatever confidence entries
\* the batches reported.
C21_ConfidenceNotMerged ==
    Returned =>
        /\ Record["confidence"].t = "obj"
        /\ DOMAIN OutConf = {"derived"}
        /\ OnlyDerivationNotes

\* two batches were merged, one reported a confidence entry, another a derived
\* sub-map of its own, and the record was returned
C21_Witness ==
    /\ Returned
    /\ \E i \in DOMAIN frags : "model" \in DOMAIN FragConf(i)
    /\ \E i \in DOMAIN frags : "derived" \in DOMAIN FragConf(i)

====
